---- MODULE Spec2Model ----
(***************************************************************************)
(* Alignment resolver of compiler/rustc_ty_utils/src/alignment.rs:         *)
(*   - generator_saved_local_eligibility, the coroutine overlap planner,   *)
(*   - generator_align, the coroutine layout assembler,                    *)
(*   - align_of, the memoized query provider,                              *)
(*   - the ADT and SIMD arms of align_of_uncached.                         *)
(***************************************************************************)
EXTENDS Integers, Sequences, FiniteSets, TLC

\* ------------------------------------------------------------------ bounds
\* Saved locals of a coroutine (info.field_tys.len()) in the planner runs.
NumLocals == 3
\* Resumption states (info.variant_fields.len()); the code needs at least one.
NumVariants == 2

\* The fields of an ADT, all its variants together.
MaxFields == 2
\* The most lanes a SIMD vector may have, scaled to the model.
MAX_SIMD_LANES == 4

\* Queries the caller threads issue to tcx.align_of, all threads together.
MaxQueries == 3

VARIABLES
    pc,                 \* position inside generator_align / the planner
    prefix_tys,         \* substs.as_generator().prefix_tys(): the upvar types
    info,               \* tcx.generator_layout(def_id): the GeneratorLayout or none
    assignments,        \* IndexVec<GeneratorSavedLocal, SavedLocalEligibility>
    ineligible_locals,  \* BitSet<GeneratorSavedLocal>
    used_variants,      \* BitSet<VariantIdx> of the collapse block
    local_a,            \* row of storage_conflicts the conflict pass is at
    row_iter,           \* storage_conflicts.iter(local_a): None between rows
    prefix,             \* the prefix LayoutS
    align,              \* the running maximum of generator_align
    index,              \* the variant generator_align is at
    variant_only,       \* per variant, the locals kept by the filter
    variant_layouts,    \* per variant, the overlay LayoutS
    result,             \* what generator_align returned
    delayed_bugs,       \* the messages given to sess.delay_span_bug
    cache,              \* the query cache of tcx.align_of, per (param_env, ty) key
    computed,           \* per key, how often align_of_uncached ran for it
    threads,            \* per caller thread: its stack of align_of frames
    issued,             \* how many queries the callers have issued
    adt,                \* the ADT whose alignment align_of_uncached resolves
    variants,           \* the cached field layouts of its variants
    e_ty,               \* the element type of the SIMD vector
    e_len               \* the number of elements of the SIMD vector

genVars == <<pc, prefix_tys, info, assignments, ineligible_locals, used_variants,
             local_a, row_iter, prefix, align, index, variant_only,
             variant_layouts, result, delayed_bugs>>

queryVars == <<cache, computed, threads, issued>>
adtVars == <<adt, variants, e_ty, e_len>>

\* ------------------------------------------------------------- basic values
None == <<>>
Some(x) == <<x>>

VariantIdx == 0 .. (NumVariants - 1)
SavedLocals(n) == 0 .. (n - 1)

\* enum SavedLocalEligibility { Unassigned, Assigned(VariantIdx), Ineligible(Option<u32>) }
Unassigned == [tag |-> "Unassigned", variant |-> None, slot |-> None]
Assigned(v) == [tag |-> "Assigned", variant |-> Some(v), slot |-> None]
Ineligible(s) == [tag |-> "Ineligible", variant |-> None, slot |-> s]

IsAssigned(e) == e.tag = "Assigned"
IsIneligible(e) == e.tag = "Ineligible"

Min(S) == CHOOSE x \in S : \A y \in S : x <= y

\* Ascending iteration of a bit set / an index range.
RECURSIVE Ascending(_)
Ascending(S) == IF S = {} THEN <<>> ELSE <<Min(S)>> \o Ascending(S \ {Min(S)})

\* ----------------------------------------------------- GeneratorLayout input
\* storage_conflicts is a BitMatrix; Row(a) is storage_conflicts.iter(a) as a set.
Row(m, a) == {b \in SavedLocals(m.n) : <<a, b>> \in m.storage_conflicts}
\* storage_conflicts.count(a): the number of bits set in row a.
Count(m, a) == Cardinality(Row(m, a))

UnorderedPairs(n) == {p \in SUBSET SavedLocals(n) : Cardinality(p) = 2}
\* The symmetric relation with the given conflicting pairs.
Symmetric(P) == {<<a, b>> \in UNION {p \X p : p \in P} : a # b}

\* A GeneratorLayout over n saved locals.
Layout(n, ft, vf, P) ==
    [some |-> TRUE, n |-> n, field_tys |-> ft, variant_fields |-> vf,
     storage_conflicts |-> Symmetric(P)]

\* tcx.generator_layout(def_id) returned None.
NoLayout ==
    [some |-> FALSE, n |-> 0, field_tys |-> <<>>,
     variant_fields |-> [v \in VariantIdx |-> {}], storage_conflicts |-> {}]

\* ------------------------------------------------------------ the planner
\* The planner's working state: the two collections it returns.
Plan(a, i) == [assignments |-> a, ineligible_locals |-> i]

\* let mut assignments = IndexVec::from_elem_n(Unassigned, info.field_tys.len());
\* let mut ineligible_locals = BitSet::new_empty(info.field_tys.len());
EmptyPlan(m) == Plan([l \in SavedLocals(m.n) |-> Unassigned], {})

\* SeeLocal with the second sighting re-assigning the local to the later variant.
SeeLocalLastWins(st, variant_index, local) ==
    LET cur == st.assignments[local] IN
    CASE cur.tag = "Unassigned" ->
            Plan([st.assignments EXCEPT ![local] = Assigned(variant_index)],
                 st.ineligible_locals)
      [] cur.tag = "Assigned" ->
            Plan([st.assignments EXCEPT ![local] = Assigned(variant_index)],
                 st.ineligible_locals)
      [] cur.tag = "Ineligible" -> st

\* SeeLocal with the second sighting leaving the local with its first variant.
SeeLocalFirstWins(st, variant_index, local) ==
    LET cur == st.assignments[local] IN
    CASE cur.tag = "Unassigned" ->
            Plan([st.assignments EXCEPT ![local] = Assigned(variant_index)],
                 st.ineligible_locals)
      [] cur.tag = "Assigned" -> st
      [] cur.tag = "Ineligible" -> st

\* One sighting of `local` in variant `variant_index`: the match of the first pass.
SeeLocal(st, variant_index, local) ==
    LET cur == st.assignments[local] IN
    CASE cur.tag = "Unassigned" ->
            Plan([st.assignments EXCEPT ![local] = Assigned(variant_index)],
                 st.ineligible_locals)
      [] cur.tag = "Assigned" ->
            Plan([st.assignments EXCEPT ![local] = Ineligible(None)],
                 st.ineligible_locals \cup {local})
      [] cur.tag = "Ineligible" -> st

\* for local in fields { ... }
RECURSIVE SeeFields(_, _, _)
SeeFields(st, variant_index, fields) ==
    IF fields = <<>> THEN st
    ELSE SeeFields(SeeLocal(st, variant_index, Head(fields)), variant_index, Tail(fields))

\* for (variant_index, fields) in ...: the variants visited in the given order.
RECURSIVE SingleAssignmentPass(_, _, _)
SingleAssignmentPass(m, order, st) ==
    IF order = <<>> THEN st
    ELSE SingleAssignmentPass(m, Tail(order),
            SeeFields(st, Head(order), Ascending(m.variant_fields[Head(order)])))

\* info.variant_fields.iter_enumerated(): ascending variant index.
Enumerated == Ascending(VariantIdx)

\* ExaminePair with the same-assignment test inverted (`!=` for `==`).
ExaminePairInvertedTest(m, st, a, b) ==
    IF b \in st.ineligible_locals \/ st.assignments[a] # st.assignments[b]
    THEN st
    ELSE LET conflicts_a == Count(m, a)
             conflicts_b == Count(m, b)
             remove == IF conflicts_a > conflicts_b THEN a ELSE b
         IN Plan([st.assignments EXCEPT ![remove] = Ineligible(None)],
                 st.ineligible_locals \cup {remove})

\* One conflicting pair (local_a, local_b) of the second pass.
ExaminePair(m, st, a, b) ==
    IF b \in st.ineligible_locals \/ st.assignments[a] = st.assignments[b]
    THEN st
    ELSE LET conflicts_a == Count(m, a)
             conflicts_b == Count(m, b)
             remove == IF conflicts_a > conflicts_b THEN a ELSE b
         IN Plan([st.assignments EXCEPT ![remove] = Ineligible(None)],
                 st.ineligible_locals \cup {remove})

\* ExamineRow leaving the row after its first pair (a break for the continue).
ExamineRowFirstOnly(m, st, a, bs) ==
    IF bs = <<>> THEN st ELSE ExaminePair(m, st, a, Head(bs))

\* for local_b in info.storage_conflicts.iter(local_a) { ... }
RECURSIVE ExamineRow(_, _, _, _)
ExamineRow(m, st, a, bs) ==
    IF bs = <<>> THEN st
    ELSE ExamineRow(m, ExaminePair(m, st, a, Head(bs)), a, Tail(bs))

\* for local_a in info.storage_conflicts.rows() { ... }
RECURSIVE ConflictPass(_, _, _)
ConflictPass(m, st, rows) ==
    IF rows = <<>> THEN st
    ELSE LET a == Head(rows) IN
         ConflictPass(m,
            IF a \in st.ineligible_locals THEN st
            ELSE ExamineRow(m, st, a, Ascending(Row(m, a))),
            Tail(rows))

\* The variants some local is still Assigned to.
UsedVariants(a) == {v \in VariantIdx : \E l \in DOMAIN a : a[l] = Assigned(v)}

\* The collapse test with the threshold off by one.
CollapsesBelowOne(used) == Cardinality(used) < 1

\* if used_variants.count() < 2
Collapses(used) == Cardinality(used) < 2

\* The collapse block: every local Ineligible(None), ineligible_locals.insert_all().
Collapse(m, st) ==
    IF Collapses(UsedVariants(st.assignments))
    THEN Plan([l \in SavedLocals(m.n) |-> Ineligible(None)], SavedLocals(m.n))
    ELSE st

\* The numbering that writes the local's own id as its slot.
PrefixOrderByLocalId(st) ==
    Plan([l \in DOMAIN st.assignments |->
            IF l \in st.ineligible_locals THEN Ineligible(Some(l)) ELSE st.assignments[l]],
         st.ineligible_locals)

\* for (idx, local) in ineligible_locals.iter().enumerate()
PrefixOrder(st) ==
    Plan([l \in DOMAIN st.assignments |->
            IF l \in st.ineligible_locals
            THEN Ineligible(Some(Cardinality({k \in st.ineligible_locals : k < l})))
            ELSE st.assignments[l]],
         st.ineligible_locals)

\* ------------------------------------------------------------ field layouts
\* AbiAndPrefAlign: the (abi, pref) pair, in bytes.
Align(a, p) == [abi |-> a, pref |-> p]
Max2(x, y) == IF x >= y THEN x ELSE y
\* AbiAndPrefAlign::max: the pointwise maximum.
MaxAlign(a, b) == Align(Max2(a.abi, b.abi), Max2(a.pref, b.pref))
\* Size::align_to: the next multiple of the power of two `al`.
AlignTo(size, al) == ((size + al - 1) \div al) * al

LayoutS(size, al) == [size |-> size, align |-> al]
Ok(v) == [tag |-> "Ok", val |-> Some(v), err |-> ""]
Err(e) == [tag |-> "Err", val |-> None, err |-> e]
\* bug!(): an internal compiler error.
Bug(msg) == [tag |-> "Bug", val |-> None, err |-> msg]
Pending == [tag |-> "None", val |-> None, err |-> ""]

\* The data layout of the model's target: the scalar types the coroutines store.
\* "T" is a type parameter, which has no layout (LayoutError::Unknown).
ScalarTys == {"u8", "u16", "u32", "u64"}
ScalarLayout(name) ==
    CASE name = "u8" -> LayoutS(1, Align(1, 1))
      [] name = "u16" -> LayoutS(2, Align(2, 8))
      [] name = "u32" -> LayoutS(4, Align(4, 4))
      [] name = "u64" -> LayoutS(8, Align(8, 8))

\* The largest object the target can hold (obj_size_bound), scaled to the model.
ObjSizeBound == 12

Ty(name) == [name |-> name, maybe_uninit |-> FALSE]
\* tcx.mk_maybe_uninit(ty): MaybeUninit<ty>, a union of () and ty.
MkMaybeUninit(ty) == [ty EXCEPT !.maybe_uninit = TRUE]

\* cx.layout_of(ty): the layout of a field type, or the failure to propagate.
\* MaybeUninit<ty> is as large and as aligned as ty, and fails where ty fails.
LayoutOf(ty) ==
    IF ty.name \in ScalarTys THEN Ok(ScalarLayout(ty.name)) ELSE Err("Unknown")

\* Integer::fit_unsigned(max_discr): the smallest unsigned integer holding it.
FitUnsigned(x) == IF x < 256 THEN "u8" ELSE IF x < 65536 THEN "u16" ELSE "u32"

\* StructKind
AlwaysSized == [kind |-> "AlwaysSized", size |-> 0, align |-> 1]
Prefixed(size, al) == [kind |-> "Prefixed", size |-> size, align |-> al]

\* ReprOptions: whether pack and align are set.
Repr(pack, al) == [pack |-> pack, align |-> al]
ReprDefault == Repr(FALSE, FALSE)

\* cx.univariant(dl, fields, repr, kind) for a default repr: the fields in order,
\* each at the next offset of its alignment, after the prefix if there is one; the
\* alignment is the maximum of the field alignments (and of the prefix alignment).
\* None when the size exceeds the bound.
RECURSIVE PlaceFields(_, _, _)
PlaceFields(fields, offset, al) ==
    IF fields = <<>> THEN LayoutS(offset, al)
    ELSE LET f == Head(fields) IN
         PlaceFields(Tail(fields), AlignTo(offset, f.align.abi) + f.size,
                     MaxAlign(al, f.align))

Univariant(fields, kind) ==
    LET start == IF kind.kind = "Prefixed" THEN AlignTo(kind.size, kind.align) ELSE 0
        al0 == IF kind.kind = "Prefixed"
               THEN Align(kind.align, kind.align) ELSE Align(1, 1)
        placed == PlaceFields(fields, start, al0)
        size == AlignTo(placed.size, placed.align.abi)
    IN IF size > ObjSizeBound THEN None ELSE Some(LayoutS(size, placed.align))

\* univariant_uninterned: [res |-> Result<LayoutS, LayoutError>, bugs |-> delayed bugs]
UnivariantUninterned(fields, repr, kind) ==
    IF repr.pack /\ repr.align
    THEN [res |-> Err("Unknown"), bugs |-> {"struct cannot be packed and aligned"}]
    ELSE LET l == Univariant(fields, kind) IN
         [res |-> IF l = None THEN Err("SizeOverflow") ELSE Ok(l[1]), bugs |-> {}]

\* .map(|ty| Ok(cx.layout_of(ty)?.layout)).collect::<Result<Vec<_>, _>>():
\* the layouts in order, or the first failure.
RECURSIVE CollectLayouts(_, _)
CollectLayouts(tys, acc) ==
    IF tys = <<>> THEN Ok(acc)
    ELSE LET l == LayoutOf(Head(tys)) IN
         IF l.tag = "Ok" THEN CollectLayouts(Tail(tys), Append(acc, l.val[1])) ELSE l

\* The filter of one variant's fields, fused with the collect that drives it: the
\* locals kept so far and their layouts, or the bug!() or failure that ends it.
FilterLocal(a, variant, local) ==
    CASE a[local].tag = "Unassigned" -> Bug("")
      [] a[local].tag = "Assigned" /\ a[local].variant = Some(variant) -> Ok(TRUE)
      [] a[local].tag = "Assigned" /\ a[local].variant # Some(variant) ->
            Bug("assignment does not match variant")
      [] a[local].tag = "Ineligible" -> Ok(FALSE)

RECURSIVE VariantOnly(_, _, _, _, _)
VariantOnly(m, a, variant, locals, acc) ==
    IF locals = <<>> THEN Ok(acc)
    ELSE LET local == Head(locals)
             keep == FilterLocal(a, variant, local)
         IN IF keep.tag # "Ok" THEN keep
            ELSE IF ~keep.val[1] THEN VariantOnly(m, a, variant, Tail(locals), acc)
            ELSE LET l == LayoutOf(Ty(m.field_tys[local])) IN
                 IF l.tag # "Ok" THEN l
                 ELSE VariantOnly(m, a, variant, Tail(locals),
                        [locals |-> Append(acc.locals, local),
                         layouts |-> Append(acc.layouts, l.val[1])])

\* The fold forgetting the running maximum: align = variant.align.
FoldVariantAlignLast(al, variant_align) == variant_align

\* align = align.max(variant.align);
FoldVariantAlign(al, variant_align) == MaxAlign(al, variant_align)

\* ---------------------------------------------------------------- actions
asmVars == <<prefix, align, index, variant_only, variant_layouts, result, delayed_bugs>>
planVars == <<assignments, ineligible_locals, used_variants, local_a, row_iter>>

\* let Some(info) = tcx.generator_layout(def_id) else { return Err(Unknown) };
\* then the entry of generator_saved_local_eligibility.
GeneratorLayoutQuery ==
    /\ pc = "start"
    /\ IF info.some
       THEN /\ pc' = "single_assignment"
            /\ assignments' = EmptyPlan(info).assignments
            /\ ineligible_locals' = EmptyPlan(info).ineligible_locals
            /\ result' = result
       ELSE /\ pc' = "done"
            /\ result' = Err("Unknown")
            /\ UNCHANGED <<assignments, ineligible_locals>>
    /\ UNCHANGED <<prefix_tys, info, used_variants, local_a, row_iter, prefix, align,
                   index, variant_only, variant_layouts, delayed_bugs>>
    /\ UNCHANGED <<queryVars, adtVars>>

\* The first pass: which saved locals are fields in only one variant.
AssignSingleVariantLocals ==
    /\ pc = "single_assignment"
    /\ LET st == SingleAssignmentPass(info, Enumerated,
                                      Plan(assignments, ineligible_locals))
       IN /\ assignments' = st.assignments
          /\ ineligible_locals' = st.ineligible_locals
    /\ pc' = "conflicts"
    /\ UNCHANGED <<prefix_tys, info, used_variants, local_a, row_iter>>
    /\ UNCHANGED asmVars
    /\ UNCHANGED <<queryVars, adtVars>>

\* The second pass, as a whole.
CheckConflicts ==
    /\ pc = "conflicts"
    /\ local_a = 0 /\ row_iter = None
    /\ LET st == ConflictPass(info, Plan(assignments, ineligible_locals),
                              Ascending(SavedLocals(info.n)))
       IN /\ assignments' = st.assignments
          /\ ineligible_locals' = st.ineligible_locals
    /\ local_a' = info.n
    /\ pc' = "used_variants"
    /\ UNCHANGED <<prefix_tys, info, used_variants, row_iter>>
    /\ UNCHANGED asmVars
    /\ UNCHANGED <<queryVars, adtVars>>

\* The second pass, pair by pair.  The head of the loop over the rows: a row
\* whose local is already ineligible is passed over, any other row is entered.
BeginRow ==
    /\ pc = "conflicts"
    /\ row_iter = None
    /\ local_a < info.n
    /\ IF local_a \in ineligible_locals
       THEN /\ local_a' = local_a + 1
            /\ row_iter' = None
       ELSE /\ local_a' = local_a
            /\ row_iter' = Some(Row(info, local_a))
    /\ UNCHANGED <<pc, prefix_tys, info, assignments, ineligible_locals, used_variants>>
    /\ UNCHANGED asmVars
    /\ UNCHANGED <<queryVars, adtVars>>

\* The local_b the row iterator yields next.
NextB == Min(row_iter[1])

\* The body of the inner loop for the next local_b of the row.
ExaminePairStep ==
    /\ pc = "conflicts"
    /\ row_iter # None
    /\ row_iter[1] # {}
    /\ LET st == ExaminePair(info, Plan(assignments, ineligible_locals), local_a, NextB)
       IN /\ assignments' = st.assignments
          /\ ineligible_locals' = st.ineligible_locals
    /\ row_iter' = Some(row_iter[1] \ {NextB})
    /\ UNCHANGED <<pc, prefix_tys, info, used_variants, local_a>>
    /\ UNCHANGED asmVars
    /\ UNCHANGED <<queryVars, adtVars>>

\* The row is exhausted: on to the next row.
EndRow ==
    /\ pc = "conflicts"
    /\ row_iter = Some({})
    /\ local_a' = local_a + 1
    /\ row_iter' = None
    /\ UNCHANGED <<pc, prefix_tys, info, assignments, ineligible_locals, used_variants>>
    /\ UNCHANGED asmVars
    /\ UNCHANGED <<queryVars, adtVars>>

\* The rows are exhausted: the second pass is over.
EndConflicts ==
    /\ pc = "conflicts"
    /\ row_iter = None
    /\ local_a = info.n
    /\ pc' = "used_variants"
    /\ UNCHANGED <<prefix_tys, info, assignments, ineligible_locals, used_variants,
                   local_a, row_iter>>
    /\ UNCHANGED asmVars
    /\ UNCHANGED <<queryVars, adtVars>>

\* The collapse block.
CountUsedVariants ==
    /\ pc = "used_variants"
    /\ used_variants' = UsedVariants(assignments)
    /\ LET st == Collapse(info, Plan(assignments, ineligible_locals))
       IN /\ assignments' = st.assignments
          /\ ineligible_locals' = st.ineligible_locals
    /\ pc' = "prefix_order"
    /\ UNCHANGED <<prefix_tys, info, local_a, row_iter>>
    /\ UNCHANGED asmVars
    /\ UNCHANGED <<queryVars, adtVars>>

\* Slot numbering and the return of (ineligible_locals, assignments).
WritePrefixOrder ==
    /\ pc = "prefix_order"
    /\ LET st == PrefixOrder(Plan(assignments, ineligible_locals))
       IN /\ assignments' = st.assignments
          /\ ineligible_locals' = st.ineligible_locals
    /\ pc' = "planned"
    /\ UNCHANGED <<prefix_tys, info, used_variants, local_a, row_iter>>
    /\ UNCHANGED asmVars
    /\ UNCHANGED <<queryVars, adtVars>>

\* The prefix: the upvars, the tag and the promoted locals, AlwaysSized.
BuildPrefix ==
    /\ pc = "planned"
    /\ LET max_discr == Cardinality(DOMAIN info.variant_fields) - 1
           tag_ty == Ty(FitUnsigned(max_discr))
           promoted == [i \in DOMAIN Ascending(ineligible_locals) |->
                          MkMaybeUninit(Ty(info.field_tys[Ascending(ineligible_locals)[i]]))]
           upvars == [i \in DOMAIN prefix_tys |-> Ty(prefix_tys[i])]
           prefix_layouts == CollectLayouts(upvars \o <<tag_ty>> \o promoted, <<>>)
           built == UnivariantUninterned(prefix_layouts.val[1], ReprDefault, AlwaysSized)
       IN IF prefix_layouts.tag # "Ok"
          THEN /\ result' = prefix_layouts
               /\ pc' = "done"
               /\ UNCHANGED <<prefix, align, delayed_bugs>>
          ELSE IF built.res.tag # "Ok"
          THEN /\ result' = built.res
               /\ delayed_bugs' = delayed_bugs \cup built.bugs
               /\ pc' = "done"
               /\ UNCHANGED <<prefix, align>>
          ELSE /\ prefix' = built.res.val
               /\ align' = Some(built.res.val[1].align)
               /\ pc' = "variants"
               /\ UNCHANGED <<result, delayed_bugs>>
    /\ UNCHANGED <<prefix_tys, info, index, variant_only, variant_layouts>>
    /\ UNCHANGED planVars
    /\ UNCHANGED <<queryVars, adtVars>>

\* One turn of the loop over info.variant_fields: the overlay of variant `index`,
\* Prefixed by the prefix, folded into the running maximum.
BuildVariant ==
    /\ pc = "variants"
    /\ index < NumVariants
    /\ LET kept == VariantOnly(info, assignments, index,
                               Ascending(info.variant_fields[index]),
                               [locals |-> <<>>, layouts |-> <<>>])
           built == UnivariantUninterned(kept.val[1].layouts, ReprDefault,
                        Prefixed(prefix[1].size, prefix[1].align.abi))
       IN IF kept.tag # "Ok"
          THEN /\ result' = kept
               /\ pc' = "done"
               /\ UNCHANGED <<align, index, variant_only, variant_layouts, delayed_bugs>>
          ELSE IF built.res.tag # "Ok"
          THEN /\ result' = built.res
               /\ delayed_bugs' = delayed_bugs \cup built.bugs
               /\ variant_only' = Append(variant_only, kept.val[1].locals)
               /\ pc' = "done"
               /\ UNCHANGED <<align, index, variant_layouts>>
          ELSE /\ align' = Some(FoldVariantAlign(align[1], built.res.val[1].align))
               /\ variant_only' = Append(variant_only, kept.val[1].locals)
               /\ variant_layouts' = Append(variant_layouts, built.res.val[1])
               /\ index' = index + 1
               /\ pc' = "variants"
               /\ UNCHANGED <<result, delayed_bugs>>
    /\ UNCHANGED <<prefix_tys, info, prefix>>
    /\ UNCHANGED planVars
    /\ UNCHANGED <<queryVars, adtVars>>

\* Ok(align)
ReturnAlign ==
    /\ pc = "variants"
    /\ index = NumVariants
    /\ result' = Ok(align[1])
    /\ pc' = "done"
    /\ UNCHANGED <<prefix_tys, info, prefix, align, index, variant_only,
                   variant_layouts, delayed_bugs>>
    /\ UNCHANGED planVars
    /\ UNCHANGED <<queryVars, adtVars>>

\* ------------------------------------------------------------ ADTs and SIMD
\* The types of ADT fields, after substitution: scalars, arrays of a scalar or of
\* the type parameter T, T itself, and the pair (u8, u8).
Scalar(name) == [kind |-> "scalar", name |-> name, count |-> 0]
Array(element, count) == [kind |-> "array", name |-> element, count |-> count]
Param == [kind |-> "param", name |-> "T", count |-> 0]
Pair == [kind |-> "tuple", name |-> "(u8, u8)", count |-> 0]
ElementTy(ty) == IF ty.name \in ScalarTys THEN Scalar(ty.name) ELSE Param

AdtFieldTys ==
    {Scalar("u8"), Scalar("u32"), Scalar("u64"), Param, Pair,
     Array("u8", 0), Array("u8", 2), Array("u8", 8), Array("T", 2)}

\* Size::checked_mul(count, dl): None from obj_size_bound on.
CheckedMul(size, count) ==
    IF size * count < ObjSizeBound THEN Some(size * count) ELSE None

\* cx.layout_of(ty) with the abi and the field shape of the layout.
TyAndLayout(size, al, abi, count) ==
    [size |-> size, align |-> al, abi |-> abi, count |-> count]

RECURSIVE LayoutOfTy(_)
LayoutOfTy(ty) ==
    CASE ty.kind = "scalar" ->
            Ok(TyAndLayout(ScalarLayout(ty.name).size, ScalarLayout(ty.name).align,
                           "Scalar", 0))
      [] ty.kind = "tuple" -> Ok(TyAndLayout(2, Align(1, 1), "ScalarPair", 0))
      [] ty.kind = "param" -> Err("Unknown")
      [] ty.kind = "array" ->
            LET element == LayoutOfTy(ElementTy(ty)) IN
            IF element.tag # "Ok" THEN element
            ELSE LET size == CheckedMul(element.val[1].size, ty.count) IN
                 IF size = None THEN Err("SizeOverflow")
                 ELSE Ok(TyAndLayout(size[1], element.val[1].align, "Aggregate", ty.count))

\* tcx.sess.fatal(msg): the session ends here.
Fatal(msg) == [tag |-> "Fatal", val |-> None, err |-> msg]

\* An ADT definition with its repr (pack and align: whether they are set) and
\* the field types of its variants.
AdtKinds == {"struct", "enum", "union"}
AdtRepr(simd, pack, al) == [simd |-> simd, pack |-> pack, align |-> al]
AdtDef(kind, repr, vs) == [some |-> TRUE, kind |-> kind, repr |-> repr, variants |-> vs]
NoAdt == [some |-> FALSE, kind |-> "", repr |-> AdtRepr(FALSE, FALSE, FALSE),
          variants |-> <<>>]

IdleAdt ==
    /\ adt = NoAdt
    /\ variants = <<>>
    /\ e_ty = None
    /\ e_len = 0

\* def.non_enum_variant().fields
NonEnumVariantFields(def) == def.variants[1]

\* for fi in fields { if fi.ty != f0_ty { fatal } }: whether the loop ends fatally.
\* NoHeterogeneousField is the loop left out.
NoHeterogeneousField(fields) == FALSE

HeterogeneousField(fields) == \E i \in DOMAIN fields : fields[i] # fields[1]

\* dl.vector_align(size): with no entry for the size in the data layout, the
\* next power of two of the size.
RECURSIVE NextPowerOfTwo(_, _)
NextPowerOfTwo(n, p) == IF p >= n THEN p ELSE NextPowerOfTwo(n, 2 * p)
VectorAlign(size) == Align(NextPowerOfTwo(size, 1), NextPowerOfTwo(size, 1))

\* What cx.layout_of_union and cx.layout_of_struct_or_enum may answer: None, or
\* a layout with some alignment.
LayoutAnswers == {None} \cup {Some(Align(a, a)) : a \in {1, 4}}

\* The fields of all variants, collected into layouts, or the first failure.
RECURSIVE CollectFieldLayouts(_, _)
CollectFieldLayouts(tys, acc) ==
    IF tys = <<>> THEN Ok(acc)
    ELSE LET l == LayoutOfTy(Head(tys)) IN
         IF l.tag = "Ok" THEN CollectFieldLayouts(Tail(tys), Append(acc, l.val[1])) ELSE l

RECURSIVE CollectVariants(_, _)
CollectVariants(vs, acc) ==
    IF vs = <<>> THEN Ok(acc)
    ELSE LET v == CollectFieldLayouts(Head(vs), <<>>) IN
         IF v.tag = "Ok" THEN CollectVariants(Tail(vs), Append(acc, v.val[1])) ELSE v

genOnlyVars == <<prefix_tys, info, assignments, ineligible_locals, used_variants, local_a,
                 row_iter, prefix, align, index, variant_only, variant_layouts>>

\* ty::Adt(def, substs) if def.repr().simd(): the ADT must be a struct.
SimdCheckStruct ==
    /\ pc = "adt"
    /\ adt.repr.simd
    /\ IF adt.kind # "struct"
       THEN /\ delayed_bugs' = delayed_bugs \cup
                 {"#[repr(simd)] was applied to an ADT that is not a struct"}
            /\ result' = Err("Unknown")
            /\ pc' = "done"
       ELSE /\ pc' = "simd_fields"
            /\ UNCHANGED <<result, delayed_bugs>>
    /\ UNCHANGED <<genOnlyVars, queryVars, adtVars>>

\* The vector has a field, and all its fields have the type of the first.
SimdCheckFields ==
    /\ pc = "simd_fields"
    /\ LET fields == NonEnumVariantFields(adt) IN
       IF fields = <<>>
       THEN /\ result' = Fatal("monomorphising SIMD type of zero length")
            /\ pc' = "done"
       ELSE IF HeterogeneousField(fields)
       THEN /\ result' = Fatal("monomorphising heterogeneous SIMD type")
            /\ pc' = "done"
       ELSE /\ pc' = "simd_element"
            /\ result' = result
    /\ UNCHANGED <<genOnlyVars, queryVars, adtVars, delayed_bugs>>

\* The element type and the number of elements: of the single array field, or
\* the field type and the number of fields.
SimdElement ==
    /\ pc = "simd_element"
    /\ LET fields == NonEnumVariantFields(adt)
           f0_ty == fields[1]
       IN IF f0_ty.kind = "array"
          THEN IF Len(fields) # 1
               THEN /\ result' = Fatal("monomorphising SIMD type with more than one array field")
                    /\ pc' = "done"
                    /\ UNCHANGED <<e_ty, e_len>>
               ELSE IF LayoutOfTy(f0_ty).tag # "Ok"
               THEN /\ result' = LayoutOfTy(f0_ty)
                    /\ pc' = "done"
                    /\ UNCHANGED <<e_ty, e_len>>
               ELSE /\ e_ty' = Some(ElementTy(f0_ty))
                    /\ e_len' = LayoutOfTy(f0_ty).val[1].count
                    /\ pc' = "simd_len"
                    /\ result' = result
          ELSE /\ e_ty' = Some(f0_ty)
               /\ e_len' = Len(fields)
               /\ pc' = "simd_len"
               /\ result' = result
    /\ UNCHANGED <<genOnlyVars, queryVars, adt, variants, delayed_bugs>>

\* The length is neither zero nor above MAX_SIMD_LANES.
SimdCheckLen ==
    /\ pc = "simd_len"
    /\ IF e_len = 0
       THEN /\ result' = Fatal("monomorphising SIMD type of zero length")
            /\ pc' = "done"
       ELSE IF e_len > MAX_SIMD_LANES
       THEN /\ result' = Fatal("monomorphising SIMD type of length greater than MAX_SIMD_LANES")
            /\ pc' = "done"
       ELSE /\ pc' = "simd_align"
            /\ result' = result
    /\ UNCHANGED <<genOnlyVars, queryVars, adtVars, delayed_bugs>>

\* The layout of the element, its abi, the size of the vector and its alignment.
SimdVectorAlign ==
    /\ pc = "simd_align"
    /\ LET e_ly == LayoutOfTy(e_ty[1]) IN
       result' =
         IF e_ly.tag # "Ok" THEN e_ly
         ELSE IF e_ly.val[1].abi # "Scalar"
         THEN Fatal("monomorphising SIMD type with a non-primitive-scalar element type")
         ELSE LET size == CheckedMul(e_ly.val[1].size, e_len) IN
              IF size = None THEN Err("SizeOverflow") ELSE Ok(VectorAlign(size[1]))
    /\ pc' = "done"
    /\ UNCHANGED <<genOnlyVars, queryVars, adtVars, delayed_bugs>>

\* ty::Adt(def, substs): cache the field layouts.
AdtFieldLayouts ==
    /\ pc = "adt"
    /\ ~adt.repr.simd
    /\ LET collected == CollectVariants(adt.variants, <<>>) IN
       IF collected.tag # "Ok"
       THEN /\ result' = collected
            /\ pc' = "done"
            /\ variants' = variants
       ELSE /\ variants' = collected.val[1]
            /\ pc' = "adt_layout"
            /\ result' = result
    /\ UNCHANGED <<genOnlyVars, queryVars, adt, e_ty, e_len, delayed_bugs>>

\* if def.is_union(): the check of pack and align, then cx.layout_of_union.
AdtUnionLayout ==
    /\ pc = "adt_layout"
    /\ adt.kind = "union"
    /\ IF adt.repr.pack /\ adt.repr.align
       THEN /\ delayed_bugs' = delayed_bugs \cup {"union cannot be packed and aligned"}
            /\ result' = Err("Unknown")
       ELSE /\ \E answer \in LayoutAnswers :
                 result' = IF answer = None THEN Err("Unknown") ELSE Ok(answer[1])
            /\ delayed_bugs' = delayed_bugs
    /\ pc' = "done"
    /\ UNCHANGED <<genOnlyVars, queryVars, adtVars>>

\* cx.layout_of_struct_or_enum(&def.repr(), &variants, ..).ok_or(SizeOverflow)
AdtStructOrEnumLayout ==
    /\ pc = "adt_layout"
    /\ adt.kind # "union"
    /\ \E answer \in LayoutAnswers :
          result' = IF answer = None THEN Err("SizeOverflow") ELSE Ok(answer[1])
    /\ pc' = "done"
    /\ UNCHANGED <<genOnlyVars, queryVars, adtVars, delayed_bugs>>

\* ------------------------------------------------------- the align_of query
\* The types the callers ask about:
\*   "u32"       a scalar, in normal form;
\*   "Arr"       an array of u32, in normal form;
\*   "Alias"     a projection that normalizes to u32;
\*   "AliasArr"  a projection that normalizes to Arr;
\*   "Bad"       a projection that cannot be normalized.
QueryTys == {"u32", "Arr", "Alias", "AliasArr", "Bad"}
ParamEnvs == {"UserFacing", "RevealAll"}
Keys == ParamEnvs \X QueryTys
Threads == {"t1", "t2"}

\* param_env.with_reveal_all_normalized(tcx)
WithRevealAllNormalized(param_env) == "RevealAll"

\* tcx.try_normalize_erasing_regions(param_env, ty)
TryNormalizeErasingRegions(ty) ==
    CASE ty = "Alias" -> Ok("u32")
      [] ty = "AliasArr" -> Ok("Arr")
      [] ty = "Bad" -> Err("NormalizationFailure")
      [] OTHER -> Ok(ty)

\* What align_of_uncached does for a type in normal form: the arm of a scalar
\* answers from the data layout, the arm of an array asks for its element.
ElementOf(ty) == IF ty = "Arr" THEN Some("u32") ELSE None
UncachedScalar(ty) == Ok(ScalarLayout(ty).align)

\* The code of align_of up to its first nested query or its return:
\*   "return"   with the result,
\*   "redirect" to the query of the normalized type,
\*   "compute"  by align_of_uncached on ty itself.
\* AlignOfNoRedirect runs align_of_uncached on the normalized type at once.
AlignOfNoRedirect(param_env, ty) ==
    LET normalized == TryNormalizeErasingRegions(ty) IN
    IF normalized.tag = "Err"
    THEN [kind |-> "return", res |-> normalized, ty |-> ty,
          param_env |-> WithRevealAllNormalized(param_env)]
    ELSE [kind |-> "compute", res |-> Pending, ty |-> normalized.val[1],
          param_env |-> WithRevealAllNormalized(param_env)]

AlignOf(param_env, ty) ==
    LET env == WithRevealAllNormalized(param_env)
        normalized == TryNormalizeErasingRegions(ty)
    IN IF normalized.tag = "Err"
       THEN [kind |-> "return", res |-> normalized, ty |-> ty, param_env |-> env]
       ELSE IF normalized.val[1] # ty
       THEN [kind |-> "redirect", res |-> Pending, ty |-> normalized.val[1], param_env |-> env]
       ELSE [kind |-> "compute", res |-> Pending, ty |-> ty, param_env |-> env]

\* The query cache: a key is absent, running (its provider is on some thread's
\* stack) or done with the provider's result.
Absent == [state |-> "absent", res |-> Pending]
Running == [state |-> "running", res |-> Pending]
Done(r) == [state |-> "done", res |-> r]

Idle == [stack |-> <<>>, ret |-> None, wait |-> None, asked |-> None, returned |-> None]

InitQuery ==
    /\ cache = [k \in Keys |-> Absent]
    /\ computed = [k \in Keys |-> 0]
    /\ threads = [t \in Threads |-> Idle]
    /\ issued = 0

\* tcx.align_of(key) as a call from thread t: a hit returns the memoized result,
\* a miss starts the provider on t's stack, a key that is running elsewhere is
\* waited for.  th is t's record with the caller's own changes made.
CallQuery(t, th, key) ==
    CASE cache[key].state = "done" ->
            /\ threads' = [threads EXCEPT ![t] = [th EXCEPT !.ret = Some(cache[key].res)]]
            /\ cache' = cache
      [] cache[key].state = "absent" ->
            /\ threads' = [threads EXCEPT ![t] =
                             [th EXCEPT !.stack = <<[key |-> key, awaiting |-> FALSE]>> \o @]]
            /\ cache' = [cache EXCEPT ![key] = Running]
      [] cache[key].state = "running" ->
            /\ threads' = [threads EXCEPT ![t] = [th EXCEPT !.wait = Some(key)]]
            /\ cache' = cache

\* The provider on top of t's stack returns r: the result is memoized and handed
\* to the caller, the frame below or the thread itself.
FinishQuery(t, r) ==
    LET th == threads[t]
        key == Head(th.stack).key
    IN /\ cache' = [cache EXCEPT ![key] = Done(r)]
       /\ threads' = [threads EXCEPT ![t] =
                        [th EXCEPT !.stack = Tail(@), !.ret = Some(r)]]

\* A caller asks for the alignment of a type.
IssueQuery(t, key) ==
    /\ issued < MaxQueries
    /\ threads[t].stack = <<>> /\ threads[t].ret = None /\ threads[t].wait = None
    /\ issued' = issued + 1
    /\ CallQuery(t, [threads[t] EXCEPT !.asked = Some(key)], key)
    /\ UNCHANGED computed
    /\ UNCHANGED <<genVars, adtVars>>

\* The caller has its answer.
ReceiveAnswer(t) ==
    /\ threads[t].stack = <<>> /\ threads[t].ret # None
    /\ threads' = [threads EXCEPT ![t] =
                     [@ EXCEPT !.ret = None,
                               !.returned = Some(<<threads[t].asked[1], threads[t].ret[1]>>)]]
    /\ UNCHANGED <<cache, computed, issued>>
    /\ UNCHANGED <<genVars, adtVars>>

\* The key t waits for is done.
WakeThread(t) ==
    /\ threads[t].wait # None
    /\ cache[threads[t].wait[1]].state = "done"
    /\ threads' = [threads EXCEPT ![t] =
                     [@ EXCEPT !.wait = None,
                               !.ret = Some(cache[threads[t].wait[1]].res)]]
    /\ UNCHANGED <<cache, computed, issued>>
    /\ UNCHANGED <<genVars, adtVars>>

\* align_of enters: normalization, then the return of the failure, the query of
\* the normalized type, or align_of_uncached up to its own nested query.
EnterAlignOf(t) ==
    /\ threads[t].stack # <<>>
    /\ ~Head(threads[t].stack).awaiting
    /\ threads[t].ret = None /\ threads[t].wait = None
    /\ LET key == Head(threads[t].stack).key
           plan == AlignOf(key[1], key[2])
           th == [threads[t] EXCEPT !.stack[1].awaiting = TRUE]
       IN CASE plan.kind = "return" ->
                 /\ FinishQuery(t, plan.res)
                 /\ UNCHANGED computed
            [] plan.kind = "redirect" ->
                 /\ CallQuery(t, th, <<plan.param_env, plan.ty>>)
                 /\ UNCHANGED computed
            [] plan.kind = "compute" ->
                 /\ computed' = [computed EXCEPT ![key] = @ + 1]
                 /\ IF ElementOf(plan.ty) # None
                    THEN CallQuery(t, th, <<plan.param_env, ElementOf(plan.ty)[1]>>)
                    ELSE FinishQuery(t, UncachedScalar(plan.ty))
    /\ UNCHANGED issued
    /\ UNCHANGED <<genVars, adtVars>>

\* The nested query has returned: align_of returns its result (line 45), and so
\* does the array arm of align_of_uncached (cx.align_of(element)?).
ResumeAlignOf(t) ==
    /\ threads[t].stack # <<>>
    /\ Head(threads[t].stack).awaiting
    /\ threads[t].ret # None
    /\ FinishQuery(t, threads[t].ret[1])
    /\ UNCHANGED <<computed, issued>>
    /\ UNCHANGED <<genVars, adtVars>>

IdleGen ==
    /\ info = NoLayout
    /\ prefix_tys = <<>>
    /\ assignments = <<>>
    /\ ineligible_locals = {}
    /\ used_variants = {}
    /\ local_a = 0
    /\ row_iter = None
    /\ prefix = None
    /\ align = None
    /\ index = 0
    /\ variant_only = <<>>
    /\ variant_layouts = <<>>
    /\ result = Pending
    /\ delayed_bugs = {}

InitQueryRun ==
    /\ InitQuery
    /\ pc = "idle"
    /\ IdleGen
    /\ IdleAdt

NextQuery ==
    \/ \E t \in Threads, key \in Keys : IssueQuery(t, key)
    \/ \E t \in Threads : ReceiveAnswer(t)
    \/ \E t \in Threads : WakeThread(t)
    \/ \E t \in Threads : EnterAlignOf(t)
    \/ \E t \in Threads : ResumeAlignOf(t)

\* The inputs: no layout at all, or any layout of at most maxn saved locals with
\* field types from Tys; the upvar types are one of upvars.
InitGen(maxn, Tys, upvars) ==
    /\ pc = "start"
    /\ \/ info = NoLayout
       \/ \E n \in 0 .. maxn :
            \E ft \in [SavedLocals(n) -> Tys] :
              \E vf \in [VariantIdx -> SUBSET SavedLocals(n)] :
                \E P \in SUBSET UnorderedPairs(n) :
                   info = Layout(n, ft, vf, P)
    /\ prefix_tys \in upvars
    /\ assignments = <<>>
    /\ ineligible_locals = {}
    /\ used_variants = {}
    /\ local_a = 0
    /\ row_iter = None
    /\ prefix = None
    /\ align = None
    /\ index = 0
    /\ variant_only = <<>>
    /\ variant_layouts = <<>>
    /\ result = Pending
    /\ delayed_bugs = {}
    /\ InitQuery
    /\ IdleAdt

Init == InitGen(NumLocals, {"u8"}, {<<>>})

Next ==
    \/ GeneratorLayoutQuery
    \/ AssignSingleVariantLocals
    \/ CheckConflicts
    \/ CountUsedVariants
    \/ WritePrefixOrder
    \/ BuildPrefix
    \/ BuildVariant
    \/ ReturnAlign

vars == <<genVars, queryVars, adtVars>>

Spec == Init /\ [][Next]_vars

\* The same run with the second pass taken pair by pair, over the layouts of
\* NumLocals + 1 saved locals each of which some resumption state lists (a saved
\* local is one that is live across a suspension point).
InitPairs ==
    /\ InitGen(NumLocals + 1, {"u8"}, {<<>>})
    /\ info.n = NumLocals + 1
    /\ \A l \in SavedLocals(info.n) : \E v \in VariantIdx : l \in info.variant_fields[v]

NextPairs ==
    \/ GeneratorLayoutQuery
    \/ AssignSingleVariantLocals
    \/ BeginRow
    \/ ExaminePairStep
    \/ EndRow
    \/ EndConflicts
    \/ CountUsedVariants
    \/ WritePrefixOrder
    \/ BuildPrefix
    \/ BuildVariant
    \/ ReturnAlign

SpecPairs == InitPairs /\ [][NextPairs]_vars

SpecQuery == InitQueryRun /\ [][NextQuery]_vars

\* The ADTs: a struct or a union has one variant, an enum up to two; the fields
\* of all variants together are at most MaxFields.
FieldLists == UNION {[1 .. k -> AdtFieldTys] : k \in 0 .. MaxFields}
TotalFields(vs) == IF vs = <<>> THEN 0 ELSE IF Len(vs) = 1 THEN Len(vs[1])
                   ELSE Len(vs[1]) + Len(vs[2])

InitAdt ==
    /\ pc = "adt"
    /\ IdleGen
    /\ InitQuery
    /\ \E kind \in AdtKinds, simd \in BOOLEAN, pack \in BOOLEAN, al \in BOOLEAN :
         \E nv \in (IF kind = "enum" THEN 0 .. 2 ELSE {1}) :
           \E vs \in [1 .. nv -> FieldLists] :
              /\ TotalFields(vs) <= MaxFields
              /\ adt = AdtDef(kind, AdtRepr(simd, pack, al), vs)
    /\ variants = <<>>
    /\ e_ty = None
    /\ e_len = 0

NextAdt ==
    \/ SimdCheckStruct
    \/ SimdCheckFields
    \/ SimdElement
    \/ SimdCheckLen
    \/ SimdVectorAlign
    \/ AdtFieldLayouts
    \/ AdtUnionLayout
    \/ AdtStructOrEnumLayout

SpecAdt == InitAdt /\ [][NextAdt]_vars

\* The assembler over the coroutines of fewer saved locals, whose saved locals
\* and upvars have any of the field types, "T" included.
FieldTys == {"u16", "u32", "T"}
UpvarTys == {<<>>, <<"u32">>, <<"T">>}

InitAlign == InitGen(NumLocals - 1, FieldTys, UpvarTys)

SpecAlign == InitAlign /\ [][Next]_vars

\* ------------------------------------------------------------------ claims
\* generator_saved_local_eligibility has returned to generator_align.
Returned == info.some /\ pc \in {"planned", "variants", "done"}
\* The resumption states that list local l.
StatesOf(l) == {v \in VariantIdx : l \in info.variant_fields[v]}
Conflicting(a, b) == <<a, b>> \in info.storage_conflicts

\* C1 as stated: when the planner returns, every saved local is Assigned or
\* Ineligible; none is left Unassigned.
C1_NoLocalUnassigned ==
    Returned => \A l \in SavedLocals(info.n) : assignments[l].tag # "Unassigned"

\* C1 amended: when the planner returns, every saved local that some resumption
\* state lists is Ineligible or Assigned to the one state that lists it; a local
\* that no state lists is Unassigned or Ineligible.
C1_ListedLocalsSettled ==
    Returned =>
        \A l \in SavedLocals(info.n) :
            /\ StatesOf(l) # {} =>
                   \/ IsIneligible(assignments[l])
                   \/ \E v \in VariantIdx : assignments[l] = Assigned(v) /\ StatesOf(l) = {v}
            /\ StatesOf(l) = {} => assignments[l].tag \in {"Unassigned", "Ineligible"}

\* A return with two locals Assigned to their only states and a local that no
\* state lists, still Unassigned.
C1_Witness ==
    /\ Returned
    /\ \E k, l \in SavedLocals(info.n) :
          /\ IsAssigned(assignments[k]) /\ IsAssigned(assignments[l])
          /\ assignments[k] # assignments[l]
    /\ \E l \in SavedLocals(info.n) :
          StatesOf(l) = {} /\ assignments[l] = Unassigned

\* C2 as stated: two conflicting locals are never both Assigned to the same state.
C2_ConflictingNeverSameState ==
    Returned =>
        \A a, b \in SavedLocals(info.n) :
            Conflicting(a, b) =>
                ~(IsAssigned(assignments[a]) /\ assignments[a] = assignments[b])

\* The locals laid out in the overlay of state v.
Overlay(v) == {l \in SavedLocals(info.n) : assignments[l] = Assigned(v)}

\* C2 amended: two conflicting locals are never left in the overlays of two
\* different states; they may share one overlay state.
C2_ConflictingNeverInTwoOverlays ==
    Returned =>
        \A v, w \in VariantIdx :
            v # w => \A a \in Overlay(v), b \in Overlay(w) : ~Conflicting(a, b)

\* A return where a conflicting pair shares the overlay of one state while the
\* overlay of another state holds a local too.
C2_Witness ==
    /\ Returned
    /\ \E a, b, c \in SavedLocals(info.n) :
          /\ Conflicting(a, b)
          /\ IsAssigned(assignments[a]) /\ assignments[a] = assignments[b]
          /\ IsAssigned(assignments[c]) /\ assignments[c] # assignments[a]

\* C3: when fewer than two states are in use after the two passes, the planner
\* returns every local Ineligible, the ineligible set holds every local, and
\* every overlay the assembler builds has no fields.
C3_DegenerateCollapse ==
    (Returned /\ Cardinality(used_variants) < 2) =>
        /\ \A l \in SavedLocals(info.n) : IsIneligible(assignments[l])
        /\ ineligible_locals = SavedLocals(info.n)
        /\ \A i \in DOMAIN variant_only : variant_only[i] = <<>>
        /\ pc = "done" /\ result.tag = "Ok" => Len(variant_only) = NumVariants

\* The assembler is done with a coroutine whose locals all sat in one state,
\* which alone was in use before the collapse.
C3_Witness ==
    /\ Returned /\ pc = "done" /\ result.tag = "Ok"
    /\ Cardinality(used_variants) = 1
    /\ info.n >= 2
    /\ \E v \in VariantIdx : info.variant_fields[v] = SavedLocals(info.n)

\* C8: for every conflicting pair the final mapping has one of the two
\* Ineligible or both with the same assignment; never the two Assigned to two
\* different states.
C8_StorageOverlapSafety ==
    Returned =>
        \A a, b \in SavedLocals(info.n) :
            Conflicting(a, b) =>
                /\ \/ IsIneligible(assignments[a])
                   \/ IsIneligible(assignments[b])
                   \/ assignments[a] = assignments[b]
                /\ ~(/\ IsAssigned(assignments[a]) /\ IsAssigned(assignments[b])
                     /\ assignments[a] # assignments[b])

\* A return without collapse in which a conflicting pair that two different
\* states list was separated: one of the two demoted, the other still Assigned.
C8_Witness ==
    /\ Returned
    /\ Cardinality(used_variants) = 2
    /\ \E a, b \in SavedLocals(info.n) :
          /\ Conflicting(a, b)
          /\ \E v, w \in VariantIdx : v # w /\ StatesOf(a) = {v} /\ StatesOf(b) = {w}
          /\ IsIneligible(assignments[a])
          /\ IsAssigned(assignments[b])

\* The orders in which the resumption states can be visited.
VisitOrders ==
    {o \in [1 .. NumVariants -> VariantIdx] : \A i, j \in 1 .. NumVariants : o[i] = o[j] => i = j}

\* The single-assignment pass has just ended.
AfterSingleAssignment == info.some /\ pc = "conflicts" /\ local_a = 0 /\ row_iter = None

\* C10: at the end of the single-assignment pass a local listed by two or more
\* states is Ineligible and a local listed by exactly one state is Assigned to
\* it, and visiting the states in any other order gives the same mapping.
C10_SingleAssignmentOrderIndependent ==
    AfterSingleAssignment =>
        /\ \A l \in SavedLocals(info.n) :
              /\ Cardinality(StatesOf(l)) >= 2 => assignments[l] = Ineligible(None)
              /\ \A v \in VariantIdx : StatesOf(l) = {v} => assignments[l] = Assigned(v)
        /\ \A o \in VisitOrders :
              SingleAssignmentPass(info, o, EmptyPlan(info))
                  = Plan(assignments, ineligible_locals)

\* The pass ended with a local listed by both states and a local listed only by
\* the state visited last.
C10_Witness ==
    /\ AfterSingleAssignment
    /\ \E l \in SavedLocals(info.n) : Cardinality(StatesOf(l)) >= 2
    /\ \E l \in SavedLocals(info.n) : StatesOf(l) = {NumVariants - 1}
\* C9: in the conflict pass a local is demoted only on account of a pair of
\* which, when it is examined, neither local is Ineligible and the two do not
\* have the same assignment.
C9_DemotionOnlyForEligiblePair ==
    [][(pc = "conflicts" /\ row_iter # None /\ assignments' # assignments) =>
          /\ ~IsIneligible(assignments[local_a])
          /\ ~IsIneligible(assignments[NextB])
          /\ assignments[local_a] # assignments[NextB]]_vars

\* The pair-by-pair pass ends as the pass taken as a whole does.
PairsAgreeWithPass ==
    (info.some /\ pc = "used_variants") =>
        Plan(assignments, ineligible_locals)
            = ConflictPass(info, SingleAssignmentPass(info, Enumerated, EmptyPlan(info)),
                           Ascending(SavedLocals(info.n)))
Max(S) == CHOOSE x \in S : \A y \in S : x >= y

\* The alignments generator_align folds: the prefix's and every overlay's.
FoldedAligns == {prefix[1].align} \cup {variant_layouts[i].align : i \in DOMAIN variant_layouts}

\* Every type generator_align may ask the layout of has one.
AllFieldsResolve ==
    /\ \A i \in DOMAIN prefix_tys : prefix_tys[i] \in ScalarTys
    /\ \A l \in SavedLocals(info.n) : info.field_tys[l] \in ScalarTys

\* C6: generator_align returns the pointwise maximum of the alignment of the
\* prefix layout and of the overlay layout of every resumption state, each overlay
\* laid out as Prefixed(prefix_size, prefix_align) over the locals assigned to its
\* state; when every field layout resolves it returns that maximum unless a
\* layout is too large.
C6_AlignIsMaxOfPrefixAndOverlays ==
    /\ (pc = "done" /\ result.tag = "Ok") =>
          /\ Len(variant_layouts) = NumVariants
          /\ \A v \in VariantIdx :
                /\ variant_only[v + 1] = Ascending(Overlay(v))
                /\ Some(variant_layouts[v + 1]) =
                      Univariant([i \in DOMAIN variant_only[v + 1] |->
                                     ScalarLayout(info.field_tys[variant_only[v + 1][i]])],
                                 Prefixed(prefix[1].size, prefix[1].align.abi))
          /\ result.val[1].abi = Max({a.abi : a \in FoldedAligns})
          /\ result.val[1].pref = Max({a.pref : a \in FoldedAligns})
          /\ \A a \in FoldedAligns : result.val[1].abi >= a.abi /\ result.val[1].pref >= a.pref
    /\ (pc = "done" /\ info.some /\ AllFieldsResolve) =>
          result.tag = "Ok" \/ result = Err("SizeOverflow")

\* generator_align returned an alignment that is neither the prefix's nor any
\* single overlay's: its abi part comes from one layout, its pref part from another.
C6_Witness ==
    /\ pc = "done" /\ result.tag = "Ok"
    /\ result.val[1] \notin FoldedAligns
    /\ \E v \in VariantIdx : variant_layouts[v + 1].align.abi > prefix[1].align.abi

\* ---------------------------------------------------- claims on ADTs and SIMD
PackedAndAligned == adt.some /\ adt.repr.pack /\ adt.repr.align
CannotBePackedAndAligned ==
    {"struct cannot be packed and aligned", "union cannot be packed and aligned"}

\* C4: resolving a record (struct, enum or union) whose repr has both pack and
\* align set ends with the "cannot be packed and aligned" failure, and never
\* returns Ok(alignment).
C4_PackAndAlignAlwaysRejected ==
    (pc = "done" /\ PackedAndAligned) =>
        /\ result = Err("Unknown")
        /\ delayed_bugs \cap CannotBePackedAndAligned # {}

\* Some variant of the ADT has two fields of different types.
TwoFieldsDiffer ==
    \E v \in DOMAIN adt.variants :
       \E i, j \in DOMAIN adt.variants[v] : adt.variants[v][i] # adt.variants[v][j]
HeterogeneousFatal == Fatal("monomorphising heterogeneous SIMD type")

\* C7 as stated: resolving any repr(simd) record with two fields of different
\* types ends with the heterogeneous-SIMD fatal condition.
C7_HeterogeneousSimdAlwaysFatal ==
    (pc = "done" /\ adt.some /\ adt.repr.simd /\ TwoFieldsDiffer) =>
        result = HeterogeneousFatal

\* C7: resolving a repr(simd) struct with two fields of different types ends
\* with the heterogeneous-SIMD fatal condition, at the homogeneity check: never
\* Ok(alignment), never Unknown or SizeOverflow, and no later step is taken.
C7_HeterogeneousSimdStructFatal ==
    /\ (pc = "done" /\ adt.some /\ adt.repr.simd /\ adt.kind = "struct" /\ TwoFieldsDiffer) =>
          result = HeterogeneousFatal
    /\ (adt.some /\ adt.repr.simd /\ adt.kind = "struct" /\ TwoFieldsDiffer) =>
          pc \in {"adt", "simd_fields", "done"}

\* A repr(simd) struct whose first field is an array and whose second is not
\* has met the fatal condition.
C7_Witness ==
    /\ pc = "done"
    /\ adt.some /\ adt.repr.simd /\ adt.kind = "struct"
    /\ Len(adt.variants[1]) = 2
    /\ adt.variants[1][1].kind = "array"
    /\ adt.variants[1][2].kind = "scalar"
    /\ result = HeterogeneousFatal

\* ------------------------------------------------ claims on the align_of query
Redirected(key) ==
    /\ TryNormalizeErasingRegions(key[2]).tag = "Ok"
    /\ TryNormalizeErasingRegions(key[2]).val[1] # key[2]
NormalizedKey(key) ==
    <<WithRevealAllNormalized(key[1]), TryNormalizeErasingRegions(key[2]).val[1]>>

\* C5: in every interleaving of the callers' queries, align_of_uncached runs at
\* most once per key and never for a key whose type differs from its normal
\* form; the result memoized for such a key is the result memoized for the
\* normalized key, and every answer a caller has received is the memoized one.
C5_AtMostOnceAndRedirected ==
    /\ \A key \in Keys : computed[key] <= 1
    /\ \A key \in Keys : Redirected(key) => computed[key] = 0
    /\ \A key \in Keys :
          (Redirected(key) /\ cache[key].state = "done") =>
              /\ cache[NormalizedKey(key)].state = "done"
              /\ cache[key].res = cache[NormalizedKey(key)].res
    /\ \A t \in Threads :
          threads[t].returned # None =>
              cache[threads[t].returned[1][1]] = Done(threads[t].returned[1][2])

\* Both callers have asked for the same type that is not in normal form and
\* have the same answer, and the normalized key was computed once.
C5_Witness ==
    \E key \in Keys :
       /\ Redirected(key)
       /\ \A t \in Threads : threads[t].returned = Some(<<key, cache[key].res>>)
       /\ cache[key].res.tag = "Ok"
       /\ computed[NormalizedKey(key)] = 1
       /\ issued = 2

\* ------------------------------------------------ claims on the slot numbering
IneligibleNow == {l \in SavedLocals(info.n) : IsIneligible(assignments[l])}
SlotOf(l) == assignments[l].slot[1]

\* C11: when the planner returns, the returned ineligible set is exactly the set
\* of locals whose eligibility is Ineligible, each of them carries Some(slot),
\* and the slots are exactly 0 .. k-1 for k ineligible locals, strictly
\* increasing with the local id.
C11_SlotNumbering ==
    Returned =>
        /\ ineligible_locals = IneligibleNow
        /\ \A l \in IneligibleNow : assignments[l].slot # None
        /\ {SlotOf(l) : l \in IneligibleNow} = 0 .. (Cardinality(IneligibleNow) - 1)
        /\ \A a, b \in IneligibleNow : a < b => SlotOf(a) < SlotOf(b)

\* The planner has returned with three locals promoted to the prefix, every
\* one listed by some state, in slots 0, 1 and 2.
C11_Witness ==
    /\ Returned
    /\ info.n = 3
    /\ \A l \in SavedLocals(3) : StatesOf(l) # {}
    /\ ineligible_locals = {0, 1, 2}
    /\ \A l \in SavedLocals(3) : assignments[l] = Ineligible(Some(l))

\* ------------------------------------------------- claims on the variant filter
\* C12: when the assembler filters the locals of a resumption state v with the
\* planner's output, each local listed in variant_fields[v] is Ineligible or
\* Assigned(v), never Unassigned and never Assigned to another state: the filter
\* answers for every listed local and generator_align never ends in bug!().
C12_FilterBugArmsUnreachable ==
    /\ result.tag # "Bug"
    /\ Returned =>
          \A v \in VariantIdx : \A l \in info.variant_fields[v] :
             /\ IsIneligible(assignments[l]) \/ assignments[l] = Assigned(v)
             /\ FilterLocal(assignments, v, l).tag = "Ok"

\* generator_align has returned an alignment after filtering both states: each
\* kept its own local and dropped local 2, which both list and the prefix holds.
C12_Witness ==
    /\ pc = "done"
    /\ result.tag = "Ok"
    /\ info.n = 3
    /\ info.variant_fields[0] = {0, 2}
    /\ info.variant_fields[1] = {1, 2}
    /\ variant_only = << <<0>>, <<1>> >>
    /\ IsIneligible(assignments[2])

====
